---- MODULE Spec2Model ----
(***************************************************************************)
(* The command/response correlation core of the AIConcert tool             *)
(* (api/app/clients/tools/structured/AIConcert.js): executeCommand, its     *)
(* 30 second timer, getWebSocketConnection and the socket handlers it      *)
(* installs (onopen, onmessage, onerror, onclose), entered through _call.  *)
(*                                                                         *)
(* Node runs every handler to completion, and the continuation of an       *)
(* awaiting caller runs as a microtask right after the handler that        *)
(* settled the promise it awaits, so each handler together with the        *)
(* continuations it releases is one atomic action.                         *)
(*                                                                         *)
(* A socket is CONNECTING, OPEN or CLOSED: the closing handshake is not a  *)
(* state of its own, the close event takes an open socket to CLOSED.       *)
(*                                                                         *)
(* Strings are sequences of tokens: a fragment, a message content and the  *)
(* separator "\n" are one token each, and string concatenation is \o.      *)
(* A message id is the decimal digit string of a timestamp.                *)
(***************************************************************************)
EXTENDS Integers, Sequences, FiniteSets

\* ---- bounds of the model ------------------------------------------------
NumCalls == 2
MaxOutput == 2

\* ---- program constants ---------------------------------------------------
TIMEOUT_MS == 30000

Calls == 1..NumCalls
Null == 0
NoId == <<>>

CONNECTING == "CONNECTING"
OPEN == "OPEN"
CLOSED == "CLOSED"

NL == "\n"
TimeoutHeader == "Command execution timed out after 30 seconds. Partial output:\n"
MissingCommand == "Missing required field: command"
ConnectionError == "WebSocket connection error"
NotOpenError == "WebSocket is not open: readyState 0 (CONNECTING)"
NullSendError == "Cannot read properties of null (reading 'send')"
ErrorPrefix == "Error executing AIConcert action: "
UnknownActionPrefix == "Unknown action: "
AvailableActions == ". Available actions are: terminal, file, analyze, test, project."

Commands == {"", "ls -la"}
\* The data _call is given: the terminal action with a command, or an action
\* its switch does not know.
Inputs ==
  { [action |-> "terminal", command |-> c] : c \in Commands }
  \cup { [action |-> "deploy", command |-> "ls -la"] }
OutputTypes == {"stdout", "stderr"}
TerminalTypes == {"system", "error"}
OtherTypes == {"status"}

VARIABLES
  now,           \* Date.now(), in milliseconds
  sockets,       \* readyState of every WebSocket created so far, by creation order
  wsConnection,  \* this.wsConnection: an index of sockets, or Null
  wsCallbacks,   \* this.wsCallbacks: messageId -> [output, complete, resolve]
  timers,        \* armed setTimeout callbacks, in arming order
  calls,         \* per call: its position, its executeCommand promise (pc,
                 \* value) and what _call gave back to the agent (result)
  logged,        \* the line the socket handlers logged last
  terminalRouted \* history: the ids of calls a terminal frame was routed for

vars == <<now, sockets, wsConnection, wsCallbacks, timers, calls, logged,
          terminalRouted>>

\* ---- pure helpers ---------------------------------------------------------

\* Number.prototype.toString: the decimal digits of a non-negative integer.
RECURSIVE ToString(_)
ToString(n) == IF n < 10 THEN <<n>> ELSE Append(ToString(n \div 10), n % 10)

\* Array.prototype.join: the elements with the separator between neighbours.
RECURSIVE join(_, _)
join(arr, sep) ==
  IF arr = <<>> THEN <<>>
  ELSE IF Len(arr) = 1 THEN <<arr[1]>>
  ELSE <<arr[1], sep>> \o join(Tail(arr), sep)

\* Map.prototype.has / set / delete on wsCallbacks.
MapHas(m, k) == k \in DOMAIN m
MapSet(m, k, v) == [x \in DOMAIN m \cup {k} |-> IF x = k THEN v ELSE m[x]]
MapDelete(m, k) == [x \in DOMAIN m \ {k} |-> m[x]]

\* The id executeCommand allocates: Date.now().toString().
NewMessageId == ToString(now)

\* The entry executeCommand registers for call i.
NewCallback(i) == [output |-> <<>>, complete |-> FALSE, resolve |-> i]

\* Mutant of TerminalResponse: the "\n" between the output and the content of
\* the terminal frame is left out.
TerminalResponseNoNewline(output, content) == join(output, NL) \o <<content>>

\* The template literal of the terminal-frame branch of onmessage.
TerminalResponse(output, content) == join(output, NL) \o <<NL>> \o <<content>>

\* The template literal of the timeout callback.
TimeoutResponse(output) == <<TimeoutHeader>> \o join(output, NL)

\* What _call gives back: nothing yet, a returned string, or a rejection.
NoResult == [state |-> "none", value |-> <<>>]
Returned(v) == [state |-> "fulfilled", value |-> v]

\* Mutant of Caught: the error is thrown on to the agent.
CaughtRethrown(message) == [state |-> "rejected", value |-> <<message>>]

\* The catch block of _call: the error becomes a returned string.
Caught(message) == Returned(<<ErrorPrefix, message>>)

\* The default branch of the switch of _call.
UnknownAction(action) == <<UnknownActionPrefix, action, AvailableActions>>

\* The promise's resolve function: the first settlement wins, later calls are
\* ignored by the promise but still counted. _call, awaiting the promise,
\* returns the value.
Resolve(cs, i, v) ==
  [cs EXCEPT ![i] = [@ EXCEPT
      !.pc = IF @ = "pending" THEN "resolved" ELSE @,
      !.value = IF cs[i].pc = "pending" THEN v ELSE @,
      !.result = IF cs[i].pc = "pending" THEN Returned(v) ELSE @,
      !.resolveCalls = @ + 1]]

\* The promise's reject function (also what a throw inside the executor or
\* inside executeCommand does). _call, awaiting the promise, catches the error.
Reject(cs, i, msg) ==
  [cs EXCEPT ![i] = [@ EXCEPT !.pc = "rejected", !.value = <<msg>>,
                              !.result = Caught(msg)]]

\* Mutant of Missing: no command counts as missing.
MissingNever(command) == FALSE

\* The test executeCommand makes on its argument: !command.
Missing(command) == command = ""

\* Mutant of ConnectionUsable: the stored socket is never taken for usable.
ConnectionUsableNever == FALSE

\* The condition under which getWebSocketConnection returns the stored socket.
ConnectionUsable == wsConnection # Null /\ sockets[wsConnection] = OPEN

\* ws.send on the handle ws, with the sockets in the states socks: a null
\* handle and a socket that is still connecting throw.
SendThrows(ws, socks) == ws = Null \/ socks[ws] = CONNECTING
SendError(ws) == IF ws = Null THEN NullSendError ELSE NotOpenError

\* The lines the socket handlers write to the logger; a received message is
\* logged with the message.
NoMessage == [parses |-> FALSE, id |-> NoId, type |-> "", content |-> ""]
Log(line, message) == [line |-> line, message |-> message]
NoLog == Log("", NoMessage)
LogConnected == Log("[AIConcert] WebSocket connected", NoMessage)
LogReceived(message) == Log("[AIConcert] WebSocket message received", message)
LogParsingError == Log("[AIConcert] WebSocket message parsing error:", NoMessage)
LogClosed == Log("[AIConcert] WebSocket connection closed", NoMessage)

\* Mutant of IsOutputFrame: stderr is not taken for output.
IsOutputFrameStdoutOnly(type) == type = "stdout"

\* The tests of onmessage on the type of a message.
IsOutputFrame(type) == type = "stdout" \/ type = "stderr"

IsTerminalFrame(type) == type = "system" \/ type = "error"

\* Mutant of Dispatch: a message whose id the table does not hold goes to some
\* entry of the table instead of being dropped.
DispatchFallback(message) ==
  IF message.id # NoId /\ MapHas(wsCallbacks, message.id) THEN message.id
  ELSE IF DOMAIN wsCallbacks # {} THEN CHOOSE k \in DOMAIN wsCallbacks : TRUE
  ELSE NoId

\* The entry onmessage dispatches a message to: the id of the message when it
\* has one and the table holds it, otherwise none.
Dispatch(message) ==
  IF message.id # NoId /\ MapHas(wsCallbacks, message.id) THEN message.id ELSE NoId

\* ---- initial state --------------------------------------------------------
Init ==
  /\ now = 0
  /\ sockets = <<>>
  /\ wsConnection = Null
  /\ wsCallbacks = <<>>
  /\ timers = <<>>
  /\ calls = [i \in Calls |->
       [pc |-> "idle", command |-> "", awaits |-> Null, messageId |-> NoId,
        sentOn |-> Null, value |-> <<>>, resolveCalls |-> 0,
        result |-> NoResult]]
  /\ logged = NoLog
  /\ terminalRouted = {}

\* ---- executeCommand -------------------------------------------------------

\* The executor of the promise executeCommand returns, run for call i of cs
\* with the handle ws it got from getWebSocketConnection; socks are the
\* readyStates at that moment.
Executor(cs, i, ws, socks) ==
  LET messageId == NewMessageId
      registered == [cs EXCEPT ![i] = [@ EXCEPT !.pc = "pending",
                                                   !.awaits = Null,
                                                   !.messageId = messageId]]
  IN /\ wsCallbacks' = MapSet(wsCallbacks, messageId, NewCallback(i))
     /\ IF SendThrows(ws, socks)
        THEN /\ calls' = Reject(registered, i, SendError(ws))
             /\ timers' = timers
        ELSE /\ calls' = [registered EXCEPT ![i] = [@ EXCEPT
                            !.sentOn = IF socks[ws] = OPEN THEN ws ELSE Null]]
             /\ timers' = Append(timers,
                  [messageId |-> messageId, resolve |-> i,
                   deadline |-> now + TIMEOUT_MS])

\* executeCommand(command) called by caller i. The calls are interchangeable,
\* so they are numbered in the order in which they are made.
executeCommand(i, command) ==
  /\ calls[i].pc = "idle"
  /\ \A j \in Calls : j < i => calls[j].pc # "idle"
  /\ LET called == [calls EXCEPT ![i].command = command] IN
     IF Missing(command)
     THEN /\ calls' = Reject(called, i, MissingCommand)
          /\ UNCHANGED <<sockets, wsConnection, wsCallbacks, timers>>
     ELSE IF ConnectionUsable
     THEN /\ Executor(called, i, wsConnection, sockets)
          /\ UNCHANGED <<sockets, wsConnection>>
     ELSE /\ sockets' = Append(sockets, CONNECTING)
          /\ wsConnection' = Len(sockets) + 1
          /\ calls' = [called EXCEPT ![i] = [@ EXCEPT !.pc = "awaitConn",
                                                      !.awaits = Len(sockets) + 1]]
          /\ UNCHANGED <<wsCallbacks, timers>>
  /\ UNCHANGED <<now, logged, terminalRouted>>

\* _call(data) by caller i: the terminal action goes to executeCommand, whose
\* outcome Resolve and Reject hand back; an action the switch does not know
\* returns at once and executeCommand is not called.
_call(i, data) ==
  IF data.action = "terminal"
  THEN executeCommand(i, data.command)
  ELSE /\ calls[i].pc = "idle"
       /\ \A j \in Calls : j < i => calls[j].pc # "idle"
       /\ calls' = [calls EXCEPT ![i] = [@ EXCEPT
                      !.pc = "skipped",
                      !.result = Returned(UnknownAction(data.action))]]
       /\ UNCHANGED <<now, sockets, wsConnection, wsCallbacks, timers, logged,
                       terminalRouted>>

\* The timeout callback of the oldest armed timer.
onTimeout ==
  /\ timers # <<>>
  /\ now >= Head(timers).deadline
  /\ LET t == Head(timers)
         has == MapHas(wsCallbacks, t.messageId)
     IN /\ timers' = Tail(timers)
        /\ IF has /\ ~wsCallbacks[t.messageId].complete
           THEN /\ wsCallbacks' = MapDelete(wsCallbacks, t.messageId)
                /\ calls' = Resolve(calls, t.resolve,
                                    TimeoutResponse(wsCallbacks[t.messageId].output))
           ELSE UNCHANGED <<wsCallbacks, calls>>
  /\ UNCHANGED <<now, sockets, wsConnection, logged, terminalRouted>>

\* ---- socket handlers ------------------------------------------------------

\* The call whose getWebSocketConnection promise belongs to socket s.
Awaiting(s) == {i \in Calls : calls[i].pc = "awaitConn" /\ calls[i].awaits = s}

\* Socket s opens: onopen resolves with the stored reference, and the caller
\* awaiting s continues into the executor with that handle.
onopen(s) ==
  /\ s \in DOMAIN sockets
  /\ sockets[s] = CONNECTING
  /\ sockets' = [sockets EXCEPT ![s] = OPEN]
  /\ logged' = LogConnected
  /\ \E i \in Awaiting(s) : Executor(calls, i, wsConnection, sockets')
  /\ UNCHANGED <<now, wsConnection, terminalRouted>>

\* The frames the server may send in the current state: replies to the command
\* of a call (carrying that call's id, fragments tagged with the call), and
\* frames with no id or with an id no call has been given.
FragmentOf(j) == IF j = 1 THEN "out1" ELSE IF j = 2 THEN "out2" ELSE "out3"
Replies ==
  { [parses |-> TRUE, id |-> calls[j].messageId, type |-> t,
     content |-> IF t \in TerminalTypes THEN "done" ELSE FragmentOf(j)] :
       j \in {k \in Calls : calls[k].messageId # NoId},
       t \in OutputTypes \cup TerminalTypes }
Strays ==
  { [parses |-> TRUE, id |-> id, type |-> t, content |-> "stray"] :
       id \in {NoId, ToString(now + 1)}, t \in {"stdout", "system"} }
  \cup { [parses |-> TRUE, id |-> NewMessageId, type |-> t, content |-> "stray"] :
       t \in OtherTypes }
Garbage == [parses |-> FALSE, id |-> NoId, type |-> "", content |-> "{"]
Frames == Replies \cup Strays \cup {Garbage}

\* Mutant of ParseFailed: a frame that does not parse empties the table.
ParseFailedClearsTable ==
  /\ logged' = LogParsingError
  /\ wsCallbacks' = <<>>
  /\ UNCHANGED <<calls, terminalRouted>>

\* The catch block of onmessage: the error is logged, nothing else happens.
ParseFailed ==
  /\ logged' = LogParsingError
  /\ UNCHANGED <<wsCallbacks, calls, terminalRouted>>

\* An open socket delivers the raw frame: onmessage. Every socket carries the
\* same handler over the same table, so which socket delivers does not matter.
onmessage(raw) ==
  /\ \E s \in DOMAIN sockets : sockets[s] = OPEN
  /\ IF ~raw.parses
     THEN ParseFailed
     ELSE LET message == raw
              id == Dispatch(message)
          IN
       /\ logged' = LogReceived(message)
       /\ terminalRouted' =
            IF /\ message.type \in TerminalTypes
               /\ \E i \in Calls : calls[i].messageId = message.id /\ message.id # NoId
            THEN terminalRouted \cup {message.id}
            ELSE terminalRouted
       /\ IF id # NoId
          THEN LET callback == wsCallbacks[id] IN
               IF IsOutputFrame(message.type)
               THEN /\ Len(callback.output) < MaxOutput
                    /\ wsCallbacks' = [wsCallbacks EXCEPT ![id].output =
                                          Append(@, message.content)]
                    /\ calls' = calls
               ELSE IF IsTerminalFrame(message.type)
               THEN /\ wsCallbacks' = MapDelete(wsCallbacks, id)
                    /\ calls' = Resolve(calls, callback.resolve,
                                        TerminalResponse(callback.output, message.content))
               ELSE UNCHANGED <<wsCallbacks, calls>>
          ELSE UNCHANGED <<wsCallbacks, calls>>
  /\ UNCHANGED <<now, sockets, wsConnection, timers>>

\* Mutant of onerror: the socket fails and closes, but the promise of the
\* caller awaiting it is not rejected.
onerrorIgnored(s) ==
  /\ s \in DOMAIN sockets
  /\ sockets[s] = CONNECTING
  /\ sockets' = [sockets EXCEPT ![s] = CLOSED]
  /\ wsConnection' = Null
  /\ logged' = LogClosed
  /\ UNCHANGED <<now, wsCallbacks, timers, calls, terminalRouted>>

\* Socket s fails before it is established: onerror rejects the promise of the
\* caller awaiting it, then the socket closes and onclose runs.
onerror(s) ==
  /\ s \in DOMAIN sockets
  /\ sockets[s] = CONNECTING
  /\ sockets' = [sockets EXCEPT ![s] = CLOSED]
  /\ \E i \in Awaiting(s) :
       calls' = [Reject(calls, i, ConnectionError) EXCEPT ![i].awaits = Null]
  /\ wsConnection' = Null
  /\ logged' = LogClosed
  /\ UNCHANGED <<now, wsCallbacks, timers, terminalRouted>>

\* Mutant of onclose: the stored reference is left as it is.
oncloseKeepsReference(s) ==
  /\ s \in DOMAIN sockets
  /\ sockets[s] = OPEN
  /\ sockets' = [sockets EXCEPT ![s] = CLOSED]
  /\ logged' = LogClosed
  /\ UNCHANGED <<now, wsConnection, wsCallbacks, timers, calls, terminalRouted>>

\* Socket s, once established, is closed: onclose.
onclose(s) ==
  /\ s \in DOMAIN sockets
  /\ sockets[s] = OPEN
  /\ sockets' = [sockets EXCEPT ![s] = CLOSED]
  /\ wsConnection' = Null
  /\ logged' = LogClosed
  /\ UNCHANGED <<now, wsCallbacks, timers, calls, terminalRouted>>

\* ---- the clock ------------------------------------------------------------
\* Time passes. Only two things read the clock: the id a call is given, and the
\* expiry of a timer. A millisecond in which no id was allocated differs in
\* nothing from the one before it, so the clock moves on by a millisecond only
\* from a millisecond that gave a call its id; and it moves on by the length of
\* the timeout only while an armed timer has not yet expired.
msElapses ==
  /\ \E i \in Calls : calls[i].messageId = ToString(now)
  /\ now' = now + 1
  /\ UNCHANGED <<sockets, wsConnection, wsCallbacks, timers, calls, logged,
                  terminalRouted>>

timeoutElapses ==
  /\ \E k \in DOMAIN timers : now < timers[k].deadline
  /\ now' = now + TIMEOUT_MS
  /\ UNCHANGED <<sockets, wsConnection, wsCallbacks, timers, calls, logged,
                  terminalRouted>>

Next ==
  \/ \E i \in Calls, data \in Inputs : _call(i, data)
  \/ onTimeout
  \/ \E s \in DOMAIN sockets : onopen(s)
  \/ \E raw \in Frames : onmessage(raw)
  \/ \E s \in DOMAIN sockets : onerror(s)
  \/ \E s \in DOMAIN sockets : onclose(s)
  \/ msElapses
  \/ timeoutElapses

Spec == Init /\ [][Next]_vars

\* ---- vocabulary of the properties ----------------------------------------
Range(seq) == {seq[k] : k \in DOMAIN seq}
Pending(i) == calls[i].pc = "pending"
TimerArmed(i) == \E k \in DOMAIN timers : timers[k].resolve = i
\* This step runs the timeout callback of call i.
TimerFires(i) ==
  timers # <<>> /\ Head(timers).resolve = i /\ timers' = Tail(timers)
\* The frame this step routes, when it routes one: onmessage logs every frame
\* it has parsed before it dispatches it.
Routed == logged'.message
\* This step routes a parsed frame.
Routes ==
  /\ logged'.line = LogReceived(NoMessage).line
  /\ Routed \in Frames
  /\ onmessage(Routed)
\* `${output}\n${content}` written out position by position: the fragments at
\* the odd positions, "\n" between them and before the content, the content
\* last.
ExpectedTerminal(output, content) ==
  LET n == Len(output)
      len == IF n = 0 THEN 2 ELSE 2 * n + 1
  IN [k \in 1..len |->
        IF k = len THEN content
        ELSE IF n = 0 \/ k % 2 = 0 THEN NL
        ELSE output[(k + 1) \div 2]]

\* This step is the call of executeCommand by caller i.
Starts(i) == calls[i].pc = "idle" /\ calls'[i].pc \notin {"idle", "skipped"}

\* C1: under any interleaving of frames and timers a call's resolve handle is
\* invoked at most once, and a timeout callback that runs after its call was
\* already resolved is a no-op: it changes neither the table nor any promise.
C1_ResolveOnce ==
  [][\A i \in Calls :
       /\ calls'[i].resolveCalls <= 1
       /\ (TimerFires(i) /\ calls[i].pc = "resolved")
            => UNCHANGED <<wsCallbacks, calls>>]_vars

\* C2: routing a terminal frame that carries the id of a call whose command
\* frame was sent and which is still pending resolves that call, and the table
\* no longer holds the id afterwards.
C2_TerminalFrameResolves ==
  [][\A i \in Calls :
       ( /\ Routes
         /\ Routed.type \in {"system", "error"}
         /\ Routed.id = calls[i].messageId
         /\ calls[i].sentOn # Null
         /\ Pending(i) )
       => /\ calls'[i].pc = "resolved"
          /\ Routed.id \notin DOMAIN wsCallbacks']_vars

\* C3: when a terminal frame resolves a call, the value is the fragments of the
\* entry in arrival order joined by "\n", then "\n", then the frame's content.
C3_TerminalValue ==
  [][( /\ Routes
       /\ Routed.type \in {"system", "error"}
       /\ Routed.id # NoId
       /\ Routed.id \in DOMAIN wsCallbacks
       /\ Pending(wsCallbacks[Routed.id].resolve) )
     => LET callback == wsCallbacks[Routed.id] IN
        /\ calls'[callback.resolve].pc = "resolved"
        /\ calls'[callback.resolve].value =
             ExpectedTerminal(callback.output, Routed.content)]_vars

\* C3 witness: a call resolved by a terminal frame after two fragments.
C3_Witness ==
  \E i \in Calls :
    /\ calls[i].pc = "resolved"
    /\ calls[i].value = <<FragmentOf(i), NL, FragmentOf(i), NL, "done">>

\* C4: when the timer of a call fires and no terminal frame was routed for its
\* id before, the call is resolved with a string that starts with the timeout
\* header and holds every fragment of its entry, and the id leaves the table.
C4_TimeoutResolves ==
  [][\A i \in Calls :
       (TimerFires(i) /\ calls[i].messageId \notin terminalRouted)
       => /\ calls'[i].pc = "resolved"
          /\ Head(calls'[i].value) = TimeoutHeader
          /\ calls[i].messageId \notin DOMAIN wsCallbacks'
          /\ \A id \in DOMAIN wsCallbacks :
               (id = calls[i].messageId /\ wsCallbacks[id].resolve = i)
                 => Range(wsCallbacks[id].output)
                      \subseteq Range(Tail(calls'[i].value))]_vars

\* C5: while two distinct calls a and b are both pending, no fragment the
\* server sent for a is in the output of b's entry, nor in the value b's
\* caller is given.
C5_NoCrossContamination ==
  [][\A a, b \in Calls :
       (a # b /\ Pending(a) /\ Pending(b))
       => /\ \A id \in DOMAIN wsCallbacks' :
               wsCallbacks'[id].resolve = b
                 => FragmentOf(a) \notin Range(wsCallbacks'[id].output)
          /\ calls'[b].pc = "resolved"
               => FragmentOf(a) \notin Range(calls'[b].value)]_vars

\* C6: at the moment a call registers its entry, the table holds no entry under
\* the id the call was given.
C6_FreshId ==
  [][\A i \in Calls :
       (calls[i].messageId = NoId /\ calls'[i].messageId # NoId)
       => calls'[i].messageId \notin DOMAIN wsCallbacks]_vars

\* C7: while the stored connection is an attempt that is still connecting, no
\* step creates another socket.
C7_SingleAttempt ==
  [][(wsConnection # Null /\ sockets[wsConnection] = CONNECTING)
       => Len(sockets') = Len(sockets)]_vars

\* C8: a call whose command frame was sent does not stay suspended: once its
\* own deadline timer has fired, it is resolved.
C8_ResolvedOnceTimerFired ==
  \A i \in Calls :
    (calls[i].sentOn # Null /\ ~TimerArmed(i)) => calls[i].pc = "resolved"

\* C9: routing a stdout or stderr frame for an id of the table only appends its
\* content to that entry, which stays in the table with complete = FALSE, and
\* settles no promise; a pending call becomes resolved only in a step that
\* routes a system or error frame or runs a timeout callback.
C9_OutputFramesOnlyAppend ==
  [][/\ ( /\ Routes
          /\ Routed.type \in {"stdout", "stderr"}
          /\ Routed.id # NoId
          /\ Routed.id \in DOMAIN wsCallbacks )
        => /\ calls' = calls
           /\ wsCallbacks' = [wsCallbacks EXCEPT ![Routed.id].output =
                                 Append(@, Routed.content)]
           /\ ~wsCallbacks'[Routed.id].complete
     /\ \A i \in Calls :
          (Pending(i) /\ calls'[i].pc = "resolved")
          => \/ timers' # timers
             \/ /\ logged' # NoLog
                /\ logged'.message.type \in {"system", "error"}]_vars

\* C9 witness: the last frame routed was a stderr fragment, and the entry it
\* was appended to is in the table, not complete, its call pending.
C9_Witness ==
  \E id \in DOMAIN wsCallbacks :
    /\ logged = LogReceived([parses |-> TRUE, id |-> id, type |-> "stderr",
                             content |-> FragmentOf(wsCallbacks[id].resolve)])
    /\ wsCallbacks[id].output # <<>>
    /\ ~wsCallbacks[id].complete
    /\ Pending(wsCallbacks[id].resolve)

\* C10: routing a frame that has no id, or an id the table does not hold,
\* changes no entry of the table, no promise and no timer.
C10_UnknownIdDropped ==
  [][(Routes /\ (Routed.id = NoId \/ Routed.id \notin DOMAIN wsCallbacks))
       => UNCHANGED <<wsCallbacks, calls, timers>>]_vars

\* C10 witness: the last frame routed carried no id or an id no call was ever
\* given, while an entry that had already received output was pending.
C10_Witness ==
  /\ logged.line = LogReceived(NoMessage).line
  /\ logged.message.id \in {NoId, ToString(now + 1)}
  /\ \E id \in DOMAIN wsCallbacks :
       wsCallbacks[id].output # <<>> /\ Pending(wsCallbacks[id].resolve)

\* C11: executeCommand called with an empty command fails in that same step
\* with the missing-field error: no socket is created, the stored connection
\* is untouched, no frame is sent, no entry is added to the table and no timer
\* is armed.
C11_EmptyCommandFails ==
  [][\A i \in Calls :
       (Starts(i) /\ calls'[i].command = "")
       => /\ calls'[i].pc = "rejected"
          /\ calls'[i].value = <<MissingCommand>>
          /\ calls'[i].awaits = Null
          /\ calls'[i].messageId = NoId
          /\ calls'[i].sentOn = Null
          /\ UNCHANGED <<sockets, wsConnection, wsCallbacks, timers>>]_vars

\* C11 witness: a call with an empty command has failed with the missing-field
\* error while another call is pending on an open connection.
C11_Witness ==
  \E i, j \in Calls :
    /\ calls[i].command = ""
    /\ calls[i].pc = "rejected"
    /\ calls[i].value = <<MissingCommand>>
    /\ Pending(j)
    /\ calls[j].sentOn # Null
    /\ Len(sockets) = 1

\* C12: executeCommand called with a command while the stored connection is
\* open creates no socket, keeps the stored reference and sends on the stored
\* connection.
C12_OpenConnectionReused ==
  [][\A i \in Calls :
       ( /\ Starts(i)
         /\ calls'[i].command # ""
         /\ wsConnection # Null
         /\ sockets[wsConnection] = OPEN )
       => /\ sockets' = sockets
          /\ wsConnection' = wsConnection
          /\ calls'[i].pc = "pending"
          /\ calls'[i].sentOn = wsConnection]_vars

\* C12 witness: two calls have sent their command on the one socket that was
\* ever created.
C12_Witness ==
  \E a, b \in Calls :
    /\ a # b
    /\ calls[a].sentOn # Null
    /\ calls[a].sentOn = calls[b].sentOn
    /\ Len(sockets) = 1

\* This step runs the executor of call i: the call gets its id.
Registers(i) == calls[i].messageId = NoId /\ calls'[i].messageId # NoId

\* C13: when the stored connection closes, the stored reference is cleared in
\* that step; the stored reference never is a closed socket; a call made with a
\* command while no open connection is stored creates a new socket, stores it
\* and awaits it; and no call is handed a closed socket to send on.
C13_ClosedConnectionReplaced ==
  [][/\ \A s \in DOMAIN sockets :
          (wsConnection = s /\ sockets[s] # CLOSED /\ sockets'[s] = CLOSED)
          => wsConnection' = Null
     /\ wsConnection' # Null => sockets'[wsConnection'] # CLOSED
     /\ \A i \in Calls :
          /\ ( /\ Starts(i)
                /\ calls'[i].command # ""
                /\ (wsConnection = Null \/ sockets[wsConnection] # OPEN) )
             => /\ Len(sockets') = Len(sockets) + 1
                /\ sockets'[Len(sockets')] = CONNECTING
                /\ wsConnection' = Len(sockets')
                /\ calls'[i].pc = "awaitConn"
                /\ calls'[i].awaits = Len(sockets')
          /\ (Registers(i) /\ calls'[i].pc = "pending")
             => /\ calls'[i].sentOn # Null
                /\ sockets'[calls'[i].sentOn] = OPEN]_vars

\* C13 witness: the first call sent on a socket that has closed since, and the
\* second call, made after the closure, sent on a newer socket, now stored.
C13_Witness ==
  \E i, j \in Calls :
    /\ calls[i].sentOn # Null
    /\ sockets[calls[i].sentOn] = CLOSED
    /\ calls[j].sentOn # Null
    /\ calls[j].sentOn > calls[i].sentOn
    /\ wsConnection = calls[j].sentOn
    /\ Len(sockets) = 2

\* C14: when a socket fails before it is established, the call awaiting it is
\* rejected with the connection error in that step, having been given no id
\* and having sent nothing, and the step adds no entry to the table and arms
\* no timer.
C14_ConnectionErrorFailsCaller ==
  [][\A s \in DOMAIN sockets : \A i \in Calls :
       ( /\ sockets[s] = CONNECTING
         /\ sockets'[s] = CLOSED
         /\ calls[i].pc = "awaitConn"
         /\ calls[i].awaits = s )
       => /\ calls'[i].pc = "rejected"
          /\ calls'[i].value = <<ConnectionError>>
          /\ calls'[i].messageId = NoId
          /\ calls'[i].sentOn = Null
          /\ UNCHANGED <<wsCallbacks, timers>>]_vars

\* C14 witness: a call has failed with the connection error while another
\* call, with its entry and its timer, is pending.
C14_Witness ==
  \E i, j \in Calls :
    /\ calls[i].pc = "rejected"
    /\ calls[i].value = <<ConnectionError>>
    /\ \E s \in DOMAIN sockets : sockets[s] = CLOSED
    /\ Pending(j)
    /\ MapHas(wsCallbacks, calls[j].messageId)
    /\ TimerArmed(j)

\* C15: routing a frame that does not parse logs the parsing error and changes
\* nothing else: no entry of the table, no promise, no timer, no socket and not
\* the stored connection, so what is routed afterwards meets the state it
\* would have met without the frame.
C15_UnparseableFrameDiscarded ==
  [][onmessage(Garbage)
       => /\ logged' = LogParsingError
          /\ UNCHANGED <<now, sockets, wsConnection, wsCallbacks, timers, calls,
                          terminalRouted>>]_vars

\* C15 witness: the parsing error is the last line logged, on a connection
\* that is still stored and open, while an entry that has received output is
\* in the table, its call pending and its timer armed.
C15_Witness ==
  /\ logged = LogParsingError
  /\ ConnectionUsable
  /\ \E id \in DOMAIN wsCallbacks :
       /\ wsCallbacks[id].output # <<>>
       /\ Pending(wsCallbacks[id].resolve)
       /\ TimerArmed(wsCallbacks[id].resolve)

\* The errors executeCommand can fail with.
Failures == {MissingCommand, ConnectionError, NotOpenError, NullSendError}

\* C16: _call never rejects: a call whose executeCommand failed (empty command,
\* connection error, failure of the send) has returned the string that starts
\* with "Error executing AIConcert action: " and goes on with the message of
\* the error; a call with an unknown action has returned the "Unknown action"
\* string; a call whose executeCommand resolved has returned its value.
C16_CallNeverRejects ==
  \A i \in Calls :
    /\ calls[i].result.state # "rejected"
    /\ calls[i].pc = "rejected"
         => /\ calls[i].value \in {<<m>> : m \in Failures}
            /\ calls[i].result.state = "fulfilled"
            /\ calls[i].result.value = <<ErrorPrefix>> \o calls[i].value
    /\ calls[i].pc = "skipped"
         => /\ calls[i].result.state = "fulfilled"
            /\ Head(calls[i].result.value) = UnknownActionPrefix
    /\ calls[i].pc = "resolved"
         => calls[i].result = [state |-> "fulfilled", value |-> calls[i].value]

\* C16 witness: one call has returned the error string for a send that threw,
\* another the error string for a connection error.
C16_Witness ==
  \E i, j \in Calls :
    /\ calls[i].result.state = "fulfilled"
    /\ calls[i].result.value \in {<<ErrorPrefix, NotOpenError>>,
                                  <<ErrorPrefix, NullSendError>>}
    /\ calls[j].result = [state |-> "fulfilled",
                          value |-> <<ErrorPrefix, ConnectionError>>]

\* C16, the other branches: a call with an unknown action has returned the
\* "Unknown action" string, one with an empty command the error string.
C16_WitnessUnknownAction ==
  \E i, j \in Calls :
    /\ calls[i].pc = "skipped"
    /\ calls[i].result.value = UnknownAction("deploy")
    /\ calls[j].result.value = <<ErrorPrefix, MissingCommand>>

\* C17: whenever the executor of a call runs, it sends: the handle it was
\* given is an open socket and is the stored connection; and when the call had
\* awaited a socket, the handle is that socket.
C17_SendsOnOpenStoredConnection ==
  [][\A i \in Calls :
       Registers(i)
       => /\ calls'[i].pc = "pending"
          /\ calls'[i].sentOn # Null
          /\ sockets'[calls'[i].sentOn] = OPEN
          /\ calls'[i].sentOn = wsConnection'
          /\ calls[i].pc = "awaitConn" => calls'[i].sentOn = calls[i].awaits]_vars

\* C18: once a call is resolved, routing a frame that carries its id and
\* running its timeout callback change no entry of the table and no promise;
\* and every entry of the table has complete = FALSE.
C18_IgnoredAfterResolution ==
  [][/\ \A i \in Calls :
          calls[i].pc = "resolved"
          => /\ (Routes /\ Routed.id = calls[i].messageId)
                  => UNCHANGED <<wsCallbacks, calls>>
             /\ TimerFires(i) => UNCHANGED <<wsCallbacks, calls>>
     /\ \A id \in DOMAIN wsCallbacks' : ~wsCallbacks'[id].complete]_vars

\* seq is an initial part of longer.
IsPrefix(seq, longer) ==
  Len(seq) <= Len(longer) /\ SubSeq(longer, 1, Len(seq)) = seq

\* The fragments of a resolved value, in the order they have in it.
FragmentsIn(value) ==
  SelectSeq(value, LAMBDA x : x \in {FragmentOf(j) : j \in Calls})

\* C19: while a call stays pending, the output accumulated under its id is
\* append-only: after every step it has its previous value as a prefix; and
\* when the call is resolved, the fragments in the value it is given are the
\* fragments of the entry in the order in which they were routed.
C19_OutputAppendOnly ==
  [][\A i \in Calls :
       LET id == calls[i].messageId IN
       (Pending(i) /\ MapHas(wsCallbacks, id))
       => /\ (calls'[i].pc = "pending" /\ MapHas(wsCallbacks', id))
               => IsPrefix(wsCallbacks[id].output, wsCallbacks'[id].output)
          /\ calls'[i].pc = "resolved"
               => FragmentsIn(calls'[i].value) = wsCallbacks[id].output]_vars

\* C20: every entry of the table has an armed timer for its id, set by the
\* call the entry belongs to, and the promise of that call is neither resolved
\* nor rejected.
C20_EntryHasTimerAndFuture ==
  \A id \in DOMAIN wsCallbacks :
    /\ \E k \in DOMAIN timers :
         /\ timers[k].messageId = id
         /\ timers[k].resolve = wsCallbacks[id].resolve
    /\ Pending(wsCallbacks[id].resolve)

\* C21: the close event of a socket other than the stored one leaves the
\* stored reference alone: while the stored connection is open and stays open
\* over a step, the reference still is that connection after the step.
C21_StaleCloseKeepsReference ==
  [][( /\ wsConnection # Null
       /\ sockets[wsConnection] = OPEN
       /\ sockets'[wsConnection] = OPEN )
     => wsConnection' = wsConnection]_vars

====
